---- MODULE Spec2Model ----
(***************************************************************************)
(* Model of the MangoDesk Meeting Summarizer.                               *)
(*                                                                         *)
(* Backend (server.js): the three POST handlers, the multer upload         *)
(* middleware, the middleware chain with its error middleware, with the    *)
(* completion provider and the mail provider as external calls whose       *)
(* invocations are recorded.                                               *)
(*                                                                         *)
(* Frontend (App.tsx): the state of the App component, its event handlers  *)
(* and the fetch calls they leave in flight.                               *)
(*                                                                         *)
(* Text is a sequence of Unicode code points (97 = "a", 32 = " ").         *)
(* A fixed literal of a template is abbreviated to one private-use code    *)
(* point (57344..57348).                                                   *)
(***************************************************************************)
EXTENDS Integers, Sequences, FiniteSets, TLC

VARIABLES env, reqs, genCalls, mailCalls

\* NODE_ENV as read when the server starts, and the requests that went
\* through the middleware chain.
VARIABLES nodeEnv, http

\* The App component: its useState values, the fetch calls in flight, and
\* whether the generate-summary call issued last has settled.
VARIABLES app, fetches, newestSettled

serverVars == <<env, reqs, genCalls, mailCalls>>

routerVars == <<nodeEnv, http>>

clientVars == <<app, fetches, newestSettled>>

vars == <<env, reqs, genCalls, mailCalls, nodeEnv, http, app, fetches, newestSettled>>

\* Number of requests the server receives in one behaviour.
MaxRequests == 2

-----------------------------------------------------------------------------
\* JavaScript values that occur in request bodies and in process.env

Undefined == [t |-> "undefined", s |-> <<>>, a |-> <<>>]

Str(s) == [t |-> "string", s |-> s, a |-> <<>>]

Arr(a) == [t |-> "array", s |-> <<>>, a |-> a]

\* Variant of Truthy that tests only for undefined.
TruthyDefinedOnly(v) == v.t # "undefined"

\* !v is false: undefined and "" are falsy, every array (also []) is truthy.
Truthy(v) ==
  CASE v.t = "undefined" -> FALSE
    [] v.t = "string" -> Len(v.s) > 0
    [] v.t = "array" -> TRUE

\* Variant of IsArray that accepts everything with a length.
IsArrayLike(v) == v.t \in {"array", "string"}

IsArray(v) == v.t = "array"

\* v.length of a string or an array.
Length(v) ==
  CASE v.t = "string" -> Len(v.s)
    [] v.t = "array" -> Len(v.a)

RECURSIVE Join(_, _)
\* Array.prototype.join on an array of strings.
Join(a, sep) ==
  IF Len(a) = 0 THEN <<>>
  ELSE IF Len(a) = 1 THEN a[1]
  ELSE a[1] \o sep \o Join(Tail(a), sep)

\* White space as String.prototype.trim sees it (the code points in use).
IsSpace(c) == c \in {9, 10, 11, 12, 13, 32, 160, 65279}

RECURSIVE TrimStart(_)
TrimStart(s) == IF Len(s) > 0 /\ IsSpace(s[1]) THEN TrimStart(Tail(s)) ELSE s

RECURSIVE TrimEnd(_)
TrimEnd(s) ==
  IF Len(s) > 0 /\ IsSpace(s[Len(s)]) THEN TrimEnd(SubSeq(s, 1, Len(s) - 1)) ELSE s

\* String.prototype.trim
Trim(s) == TrimEnd(TrimStart(s))

\* String conversion done by a template literal `${v}`.
StringOf(v) ==
  CASE v.t = "undefined" -> <<117, 110, 100, 101, 102, 105, 110, 101, 100>>
    [] v.t = "string" -> v.s
    [] v.t = "array" -> Join(v.a, <<44>>)

-----------------------------------------------------------------------------
\* Responses: res.status(n).json(body)

NoBody == [keys |-> {}, msg |-> "", text |-> <<>>, success |-> FALSE]

ErrorBody(m) == [keys |-> {"error"}, msg |-> m, text |-> <<>>, success |-> FALSE]

SummaryBody(txt) == [keys |-> {"summary"}, msg |-> "", text |-> txt, success |-> FALSE]

SentBody == [keys |-> {"success", "message"}, msg |-> "Email sent successfully",
             text |-> <<>>, success |-> TRUE]

TranscriptBody(txt) == [keys |-> {"transcript"}, msg |-> "", text |-> txt, success |-> FALSE]

Response(st, b) == [status |-> st, body |-> b]

NoResponse == Response(0, NoBody)

NoError == ""

-----------------------------------------------------------------------------
\* Route 1: POST /api/generate-summary

GEMINI_MODEL == "gemini-1.5-flash"

PROMPT_INTRO == <<57344>>

PROMPT_INSTRUCTION == <<57345>>

PROMPT_OUTRO == <<57346>>

Prompt(transcript, instruction) ==
  PROMPT_INTRO \o StringOf(transcript) \o PROMPT_INSTRUCTION
    \o StringOf(instruction) \o PROMPT_OUTRO

\* Variant of generateSummary that calls the provider before it looks at
\* the configuration.
generateSummaryCallFirst(body, e) ==
  IF ~Truthy(body.transcript) \/ ~Truthy(body.instruction)
  THEN [phase |-> "responded",
        res |-> Response(400, ErrorBody("Transcript and instruction are required")),
        calls |-> <<>>]
  ELSE IF ~Truthy(e.GEMINI_API_KEY)
  THEN [phase |-> "responded",
        res |-> Response(500, ErrorBody("Gemini API key not configured")),
        calls |-> << [model |-> GEMINI_MODEL,
                      prompt |-> Prompt(body.transcript, body.instruction)] >>]
  ELSE [phase |-> "awaiting",
        res |-> NoResponse,
        calls |-> << [model |-> GEMINI_MODEL,
                      prompt |-> Prompt(body.transcript, body.instruction)] >>]

\* Variant of generateSummary that calls the provider a second time.
generateSummaryTwice(body, e) ==
  IF ~Truthy(body.transcript) \/ ~Truthy(body.instruction)
  THEN [phase |-> "responded",
        res |-> Response(400, ErrorBody("Transcript and instruction are required")),
        calls |-> <<>>]
  ELSE IF ~Truthy(e.GEMINI_API_KEY)
  THEN [phase |-> "responded",
        res |-> Response(500, ErrorBody("Gemini API key not configured")),
        calls |-> <<>>]
  ELSE [phase |-> "awaiting",
        res |-> NoResponse,
        calls |-> << [model |-> GEMINI_MODEL,
                      prompt |-> Prompt(body.transcript, body.instruction)],
                     [model |-> GEMINI_MODEL,
                      prompt |-> Prompt(body.transcript, body.instruction)] >>]

\* Variant of generateSummary without the configuration check.
generateSummaryUnchecked(body, e) ==
  IF ~Truthy(body.transcript) \/ ~Truthy(body.instruction)
  THEN [phase |-> "responded",
        res |-> Response(400, ErrorBody("Transcript and instruction are required")),
        calls |-> <<>>]
  ELSE [phase |-> "awaiting",
        res |-> NoResponse,
        calls |-> << [model |-> GEMINI_MODEL,
                      prompt |-> Prompt(body.transcript, body.instruction)] >>]

\* The handler up to its first await: the response if it returns early,
\* else the provider calls it issues.
generateSummary(body, e) ==
  IF ~Truthy(body.transcript) \/ ~Truthy(body.instruction)
  THEN [phase |-> "responded",
        res |-> Response(400, ErrorBody("Transcript and instruction are required")),
        calls |-> <<>>]
  ELSE IF ~Truthy(e.GEMINI_API_KEY)
  THEN [phase |-> "responded",
        res |-> Response(500, ErrorBody("Gemini API key not configured")),
        calls |-> <<>>]
  ELSE [phase |-> "awaiting",
        res |-> NoResponse,
        calls |-> << [model |-> GEMINI_MODEL,
                      prompt |-> Prompt(body.transcript, body.instruction)] >>]

\* Variant of generateSummaryThen that trims the provider's text.
generateSummaryThenTrimmed(txt) == Response(200, SummaryBody(Trim(txt)))

\* The handler after generateContent resolved with `txt`.
generateSummaryThen(txt) == Response(200, SummaryBody(txt))

\* Variant of generateSummaryCatch that passes the error message on.
generateSummaryCatchEcho(error) == Response(500, ErrorBody(error))

\* The handler's catch block.
generateSummaryCatch(error) ==
  Response(500, ErrorBody("Failed to generate summary. Please try again."))


-----------------------------------------------------------------------------
\* Route 2: POST /api/send-email

MAIL_SUBJECT == "Meeting Summary - MangoDesk"

HTML_HEAD == <<57347>>

HTML_TAIL == <<57348>>

\* Variant of MailOptions addressed to the first recipient only.
MailOptionsFirstOnly(summary, recipients, e) ==
  [from |-> e.EMAIL_USER,
   to |-> recipients.a[1],
   subject |-> MAIL_SUBJECT,
   html |-> HTML_HEAD \o StringOf(summary) \o HTML_TAIL]

MailOptions(summary, recipients, e) ==
  [from |-> e.EMAIL_USER,
   to |-> Join(recipients.a, <<44, 32>>),
   subject |-> MAIL_SUBJECT,
   html |-> HTML_HEAD \o StringOf(summary) \o HTML_TAIL]

\* Variant of sendEmail whose configuration error tells the two mail
\* credentials apart.
sendEmailTellsWhich(body, e) ==
  IF ~Truthy(body.summary) \/ ~Truthy(body.recipients)
     \/ ~IsArray(body.recipients) \/ Length(body.recipients) = 0
  THEN [phase |-> "responded",
        res |-> Response(400, ErrorBody("Summary and at least one recipient email are required")),
        calls |-> <<>>]
  ELSE IF ~Truthy(e.EMAIL_USER)
  THEN [phase |-> "responded",
        res |-> Response(500, ErrorBody("Email user not set up")),
        calls |-> <<>>]
  ELSE IF ~Truthy(e.EMAIL_PASS)
  THEN [phase |-> "responded",
        res |-> Response(500, ErrorBody("Email password not set up")),
        calls |-> <<>>]
  ELSE [phase |-> "awaiting",
        res |-> NoResponse,
        calls |-> << MailOptions(body.summary, body.recipients, e) >>]

\* Variant of sendEmail that looks at the configuration first.
sendEmailConfigFirst(body, e) ==
  IF ~Truthy(e.EMAIL_USER) \/ ~Truthy(e.EMAIL_PASS)
  THEN [phase |-> "responded",
        res |-> Response(500, ErrorBody("Email configuration not set up")),
        calls |-> <<>>]
  ELSE IF ~Truthy(body.summary) \/ ~Truthy(body.recipients)
          \/ ~IsArray(body.recipients) \/ Length(body.recipients) = 0
  THEN [phase |-> "responded",
        res |-> Response(400, ErrorBody("Summary and at least one recipient email are required")),
        calls |-> <<>>]
  ELSE [phase |-> "awaiting",
        res |-> NoResponse,
        calls |-> << MailOptions(body.summary, body.recipients, e) >>]

\* The handler up to its first await.
sendEmail(body, e) ==
  IF ~Truthy(body.summary) \/ ~Truthy(body.recipients)
     \/ ~IsArray(body.recipients) \/ Length(body.recipients) = 0
  THEN [phase |-> "responded",
        res |-> Response(400, ErrorBody("Summary and at least one recipient email are required")),
        calls |-> <<>>]
  ELSE IF ~Truthy(e.EMAIL_USER) \/ ~Truthy(e.EMAIL_PASS)
  THEN [phase |-> "responded",
        res |-> Response(500, ErrorBody("Email configuration not set up")),
        calls |-> <<>>]
  ELSE [phase |-> "awaiting",
        res |-> NoResponse,
        calls |-> << MailOptions(body.summary, body.recipients, e) >>]

\* The handler after sendMail resolved.
sendEmailThen == Response(200, SentBody)

\* The handler's catch block.
sendEmailCatch(error) ==
  Response(500, ErrorBody("Failed to send email. Please check your email configuration."))

-----------------------------------------------------------------------------
\* Route 3: POST /api/upload-transcript

FILE_SIZE_LIMIT == 5 * 1024 * 1024

NoFile == [present |-> FALSE, mimetype |-> "", buffer |-> <<>>, size |-> 0]

File(m, b, n) == [present |-> TRUE, mimetype |-> m, buffer |-> b, size |-> n]

\* multer's fileFilter: TRUE when the callback is cb(null, true).
fileFilter(file) ==
  file.mimetype = "text/plain" \/ file.mimetype = "application/octet-stream"

IsCont(b) == b >= 128 /\ b <= 191

RECURSIVE Utf8Decode(_)
\* Buffer.prototype.toString('utf-8'): 1- to 3-byte forms; a byte that
\* starts no well-formed sequence becomes U+FFFD. A leading BOM is kept.
Utf8Decode(b) ==
  IF Len(b) = 0 THEN <<>>
  ELSE IF b[1] < 128 THEN <<b[1]>> \o Utf8Decode(Tail(b))
  ELSE IF b[1] >= 194 /\ b[1] <= 223 /\ Len(b) >= 2 /\ IsCont(b[2])
    THEN <<(b[1] - 192) * 64 + (b[2] - 128)>> \o Utf8Decode(SubSeq(b, 3, Len(b)))
  ELSE IF b[1] >= 224 /\ b[1] <= 239 /\ Len(b) >= 3 /\ IsCont(b[2]) /\ IsCont(b[3])
          /\ (b[1] = 224 => b[2] >= 160) /\ (b[1] = 237 => b[2] <= 159)
    THEN <<(b[1] - 224) * 4096 + (b[2] - 128) * 64 + (b[3] - 128)>>
           \o Utf8Decode(SubSeq(b, 4, Len(b)))
  ELSE <<65533>> \o Utf8Decode(Tail(b))

\* The error-handling middleware (4-argument app.use).
errorMiddleware(error) == Response(500, ErrorBody("Internal server error"))

\* Variant of uploadTranscript that trims the decoded text.
uploadTranscriptTrimmed(file) ==
  IF ~file.present
  THEN Response(400, ErrorBody("No file uploaded"))
  ELSE Response(200, TranscriptBody(Trim(Utf8Decode(file.buffer))))

\* The route handler proper, run when multer called next() without error.
uploadTranscript(file) ==
  IF ~file.present
  THEN Response(400, ErrorBody("No file uploaded"))
  ELSE Response(200, TranscriptBody(Utf8Decode(file.buffer)))

\* upload.single('transcript') followed by the handler or, when multer
\* calls next(err), by the error middleware.
uploadRoute(file) ==
  IF ~file.present THEN [res |-> uploadTranscript(file), logged |-> NoError]
  ELSE IF ~fileFilter(file)
  THEN [res |-> errorMiddleware("Only .txt files are allowed"),
        logged |-> "Only .txt files are allowed"]
  ELSE IF file.size > FILE_SIZE_LIMIT
  THEN [res |-> errorMiddleware("File too large"), logged |-> "File too large"]
  ELSE [res |-> uploadTranscript(file), logged |-> NoError]

NoFields ==
  [transcript |-> Undefined, instruction |-> Undefined,
   summary |-> Undefined, recipients |-> Undefined]

-----------------------------------------------------------------------------
\* The middleware chain: express.json, the routes, the production static
\* fallback, the error middleware, and Express's own 404.

HealthBody ==
  [keys |-> {"status", "message"}, msg |-> "MangoDesk Meeting Summarizer API is running",
   text |-> <<>>, success |-> FALSE]

\* A file sent by express.static or res.sendFile.
FileBody(f) == [keys |-> {"file"}, msg |-> f, text |-> <<>>, success |-> FALSE]

\* The page Express sends when no layer answered.
NotFoundBody == [keys |-> {"html"}, msg |-> "Cannot find route", text |-> <<>>, success |-> FALSE]

INDEX_HTML == "/index.html"

\* Files of frontend/build.
BuildFiles == {INDEX_HTML, "/static/js/main.js"}

\* The file express.static finds for a path ("" when there is none).
staticFile(path) ==
  IF path = "/" THEN INDEX_HTML
  ELSE IF path \in BuildFiles THEN path
  ELSE ""

\* Variant of dispatch whose fallback route is registered with app.all.
dispatchAllMethods(req, mode, e) ==
  IF req.body = "malformed"
  THEN [layer |-> "error", res |-> errorMiddleware("entity.parse.failed")]
  ELSE IF req.method = "POST" /\ req.path = "/api/generate-summary"
  THEN [layer |-> "route", res |-> generateSummary(NoFields, e).res]
  ELSE IF req.method = "POST" /\ req.path = "/api/send-email"
  THEN [layer |-> "route", res |-> sendEmail(NoFields, e).res]
  ELSE IF req.method = "POST" /\ req.path = "/api/upload-transcript"
  THEN [layer |-> "route", res |-> uploadRoute(NoFile).res]
  ELSE IF req.method = "GET" /\ req.path = "/api/health"
  THEN [layer |-> "route", res |-> Response(200, HealthBody)]
  ELSE IF mode = "production" /\ req.method = "GET" /\ staticFile(req.path) # ""
  THEN [layer |-> "static", res |-> Response(200, FileBody(staticFile(req.path)))]
  ELSE IF mode = "production"
  THEN [layer |-> "fallback", res |-> Response(200, FileBody(INDEX_HTML))]
  ELSE [layer |-> "none", res |-> Response(404, NotFoundBody)]

\* One request through the layers in the order app.use/app.post/app.get
\* registered them. req.body is "none" (no body), "empty-object" ("{}" sent
\* as application/json) or "malformed" (text that is no JSON sent as
\* application/json); express.json leaves req.body = {} for the first two
\* and calls next(err) for the third, which skips every layer up to the
\* error middleware.
dispatch(req, mode, e) ==
  IF req.body = "malformed"
  THEN [layer |-> "error", res |-> errorMiddleware("entity.parse.failed")]
  ELSE IF req.method = "POST" /\ req.path = "/api/generate-summary"
  THEN [layer |-> "route", res |-> generateSummary(NoFields, e).res]
  ELSE IF req.method = "POST" /\ req.path = "/api/send-email"
  THEN [layer |-> "route", res |-> sendEmail(NoFields, e).res]
  ELSE IF req.method = "POST" /\ req.path = "/api/upload-transcript"
  THEN [layer |-> "route", res |-> uploadRoute(NoFile).res]
  ELSE IF req.method = "GET" /\ req.path = "/api/health"
  THEN [layer |-> "route", res |-> Response(200, HealthBody)]
  ELSE IF mode = "production" /\ req.method = "GET" /\ staticFile(req.path) # ""
  THEN [layer |-> "static", res |-> Response(200, FileBody(staticFile(req.path)))]
  ELSE IF mode = "production" /\ req.method = "GET"
  THEN [layer |-> "fallback", res |-> Response(200, FileBody(INDEX_HTML))]
  ELSE [layer |-> "none", res |-> Response(404, NotFoundBody)]

-----------------------------------------------------------------------------
\* Inputs

EnvNames == {"GEMINI_API_KEY", "EMAIL_USER", "EMAIL_PASS"}

EnvValues == {Undefined, Str(<<107>>)}

TranscriptValues == {Undefined, Str(<<>>), Str(<<97>>), Str(<<32, 97, 32>>)}

InstructionValues == {Undefined, Str(<<>>), Str(<<97>>)}

SummaryValues == {Undefined, Str(<<>>), Str(<<60, 98, 62, 32>>)}

RecipientsValues ==
  {Undefined, Str(<<97>>), Arr(<<>>), Arr(<< <<97>> >>), Arr(<< <<97>>, <<98>> >>)}

ProviderTexts == {<<32, 97, 10>>, <<98>>}

ProviderErrors == {"quota exceeded", "API key not valid"}

MimeTypes == {"text/plain", "application/octet-stream", "application/pdf"}

Buffers == {<<32, 97, 32>>, <<195, 169, 255>>, <<239, 187, 191, 97>>}

Files ==
  {NoFile}
    \cup {File(m, b, Len(b)) : m \in MimeTypes, b \in Buffers}
    \cup {File("text/plain", <<97>>, FILE_SIZE_LIMIT + 1)}

NodeEnvValues == {"development", "production"}

Paths ==
  {"/api/generate-summary", "/api/send-email", "/api/upload-transcript", "/api/health",
   "/api/nonexistent", "/dashboard", "/static/js/main.js"}

HttpRequests ==
  [method : {"GET"}, path : Paths, body : {"none", "malformed"}]
    \cup [method : {"POST"}, path : Paths, body : {"empty-object", "malformed"}]

\* The App component before any event.
AppStart ==
  [transcript |-> <<>>, instruction |-> <<>>, summary |-> <<>>,
   recipients |-> <<>>, recipientInput |-> <<>>,
   status |-> [type |-> "null", message |-> ""]]

\* The file input without a file.
NoChoice == [present |-> FALSE, name |-> "", type |-> "", bytes |-> <<>>]

-----------------------------------------------------------------------------
\* State machine

Init ==
  /\ env \in [EnvNames -> EnvValues]
  /\ reqs = <<>>
  /\ genCalls = <<>>
  /\ mailCalls = <<>>
  /\ nodeEnv = "development"
  /\ http = <<>>
  /\ app = AppStart
  /\ fetches = <<>>
  /\ newestSettled = FALSE

\* The calls of one handler run, tagged with the request they belong to.
Tagged(calls, rid) ==
  [k \in 1..Len(calls) |->
     [rid |-> rid, call |-> calls[k], outcome |-> "pending", text |-> <<>>, error |-> NoError]]

\* The provider settles the calls of request rid.
Settled(log, rid, outcome, txt, error) ==
  [k \in 1..Len(log) |->
     IF log[k].rid = rid
     THEN [log[k] EXCEPT !.outcome = outcome, !.text = txt, !.error = error]
     ELSE log[k]]

\* A generate-summary request arrives and its handler runs to the first await.
GenerateSummary(transcript, instruction) ==
  /\ Len(reqs) < MaxRequests
  /\ LET body == [NoFields EXCEPT !.transcript = transcript, !.instruction = instruction]
         h == generateSummary(body, env)
     IN /\ reqs' = Append(reqs, [route |-> "generate-summary", body |-> body,
                                 file |-> NoFile, phase |-> h.phase, res |-> h.res,
                                 logged |-> NoError])
        /\ genCalls' = genCalls \o Tagged(h.calls, Len(reqs) + 1)
  /\ UNCHANGED <<env, mailCalls>>
  /\ UNCHANGED <<routerVars, clientVars>>

\* model.generateContent resolves and response.text() returns txt.
GenerateContentResolves(i, txt) ==
  /\ i \in 1..Len(reqs)
  /\ reqs[i].route = "generate-summary"
  /\ reqs[i].phase = "awaiting"
  /\ reqs' = [reqs EXCEPT ![i].phase = "responded", ![i].res = generateSummaryThen(txt)]
  /\ genCalls' = Settled(genCalls, i, "resolved", txt, NoError)
  /\ UNCHANGED <<env, mailCalls>>
  /\ UNCHANGED <<routerVars, clientVars>>

\* model.generateContent (or reading its response) throws.
GenerateContentRejects(i, error) ==
  /\ i \in 1..Len(reqs)
  /\ reqs[i].route = "generate-summary"
  /\ reqs[i].phase = "awaiting"
  /\ reqs' = [reqs EXCEPT ![i].phase = "responded", ![i].res = generateSummaryCatch(error),
                          ![i].logged = error]
  /\ genCalls' = Settled(genCalls, i, "rejected", <<>>, error)
  /\ UNCHANGED <<env, mailCalls>>
  /\ UNCHANGED <<routerVars, clientVars>>

\* A send-email request arrives and its handler runs to the first await.
SendEmail(summary, recipients) ==
  /\ Len(reqs) < MaxRequests
  /\ LET body == [NoFields EXCEPT !.summary = summary, !.recipients = recipients]
         h == sendEmail(body, env)
     IN /\ reqs' = Append(reqs, [route |-> "send-email", body |-> body,
                                 file |-> NoFile, phase |-> h.phase, res |-> h.res,
                                 logged |-> NoError])
        /\ mailCalls' = mailCalls \o Tagged(h.calls, Len(reqs) + 1)
  /\ UNCHANGED <<env, genCalls>>
  /\ UNCHANGED <<routerVars, clientVars>>

\* transporter.sendMail resolves.
SendMailResolves(i) ==
  /\ i \in 1..Len(reqs)
  /\ reqs[i].route = "send-email"
  /\ reqs[i].phase = "awaiting"
  /\ reqs' = [reqs EXCEPT ![i].phase = "responded", ![i].res = sendEmailThen]
  /\ mailCalls' = Settled(mailCalls, i, "resolved", <<>>, NoError)
  /\ UNCHANGED <<env, genCalls>>
  /\ UNCHANGED <<routerVars, clientVars>>

\* transporter.sendMail rejects.
SendMailRejects(i, error) ==
  /\ i \in 1..Len(reqs)
  /\ reqs[i].route = "send-email"
  /\ reqs[i].phase = "awaiting"
  /\ reqs' = [reqs EXCEPT ![i].phase = "responded", ![i].res = sendEmailCatch(error),
                          ![i].logged = error]
  /\ mailCalls' = Settled(mailCalls, i, "rejected", <<>>, error)
  /\ UNCHANGED <<env, genCalls>>
  /\ UNCHANGED <<routerVars, clientVars>>

\* An upload-transcript request is handled (no await in its route).
UploadTranscript(file) ==
  /\ Len(reqs) < MaxRequests
  /\ LET h == uploadRoute(file)
     IN reqs' = Append(reqs, [route |-> "upload-transcript", body |-> NoFields,
                              file |-> file, phase |-> "responded", res |-> h.res,
                              logged |-> h.logged])
  /\ UNCHANGED <<env, genCalls, mailCalls>>
  /\ UNCHANGED <<routerVars, clientVars>>

\* process.env is changed while the server runs (as the server tests do
\* with delete process.env.X and its restoring assignment).
SetEnv(name, value) ==
  /\ env[name] # value
  /\ env' = [env EXCEPT ![name] = value]
  /\ UNCHANGED <<reqs, genCalls, mailCalls>>
  /\ UNCHANGED <<routerVars, clientVars>>

Next ==
  \/ \E t \in TranscriptValues, n \in InstructionValues : GenerateSummary(t, n)
  \/ \E i \in 1..MaxRequests, txt \in ProviderTexts : GenerateContentResolves(i, txt)
  \/ \E i \in 1..MaxRequests, e \in ProviderErrors : GenerateContentRejects(i, e)
  \/ \E s \in SummaryValues, r \in RecipientsValues : SendEmail(s, r)
  \/ \E i \in 1..MaxRequests : SendMailResolves(i)
  \/ \E i \in 1..MaxRequests, e \in ProviderErrors : SendMailRejects(i, e)
  \/ \E f \in Files : UploadTranscript(f)
  \/ \E n \in EnvNames, v \in EnvValues : SetEnv(n, v)

Spec == Init /\ [][Next]_vars

-----------------------------------------------------------------------------
\* The middleware chain as a state machine: the server starts in either
\* mode and answers requests of any method and path.

RouterInit ==
  /\ env \in [EnvNames -> EnvValues]
  /\ reqs = <<>>
  /\ genCalls = <<>>
  /\ mailCalls = <<>>
  /\ nodeEnv \in NodeEnvValues
  /\ http = <<>>
  /\ app = AppStart
  /\ fetches = <<>>
  /\ newestSettled = FALSE

\* A request is answered by the first layer that takes it.
Handle(req) ==
  /\ Len(http) < MaxRequests
  /\ LET d == dispatch(req, nodeEnv, env)
     IN http' = Append(http, [req |-> req, layer |-> d.layer, res |-> d.res])
  /\ UNCHANGED <<nodeEnv, serverVars, clientVars>>

RouterNext == \E req \in HttpRequests : Handle(req)

RouterSpec == RouterInit /\ [][RouterNext]_vars

-----------------------------------------------------------------------------
\* Frontend: the App component (App.tsx)

\* Fetch calls the App may have in flight at once.
MaxInFlight == 2

Status(t, m) == [type |-> t, message |-> m]

\* String.prototype.endsWith
EndsWith(s, suffix) ==
  /\ Len(s) >= Len(suffix)
  /\ SubSeq(s, Len(s) - Len(suffix) + 1, Len(s)) = suffix

DOT_TXT == <<46, 116, 120, 116>>

\* Array.prototype.includes
Includes(list, x) == \E k \in 1..Len(list) : list[k] = x

RECURSIVE Filter(_, _)
\* recipients.filter(r => r !== email)
Filter(list, email) ==
  IF Len(list) = 0 THEN <<>>
  ELSE IF list[1] # email THEN <<list[1]>> \o Filter(Tail(list), email)
  ELSE Filter(Tail(list), email)

\* A fetch call in flight: its kind and the body it was given.
UploadFetch(file) ==
  [kind |-> "upload", file |-> file, transcript |-> <<>>, instruction |-> <<>>,
   summary |-> <<>>, recipients |-> <<>>]

GenerateFetch(t, n) ==
  [kind |-> "generate", file |-> NoChoice, transcript |-> t, instruction |-> n,
   summary |-> <<>>, recipients |-> <<>>]

SendFetch(sm, rs) ==
  [kind |-> "send", file |-> NoChoice, transcript |-> <<>>, instruction |-> <<>>,
   summary |-> sm, recipients |-> rs]

\* The client-side check of the chosen file.
preCheck(file) == file.type = "text/plain" \/ EndsWith(file.name, DOT_TXT)

\* handleFileUpload up to its await: the new App state and the fetch
\* calls issued.
handleFileUpload(a, file) ==
  IF ~file.present THEN [app |-> a, issued |-> <<>>]
  ELSE IF ~preCheck(file)
  THEN [app |-> [a EXCEPT !.status = Status("error", "Please upload a .txt file")],
        issued |-> <<>>]
  ELSE [app |-> [a EXCEPT !.status = Status("loading", "Uploading file...")],
        issued |-> << UploadFetch(file) >>]

\* generateSummary of App.tsx up to its await.
appGenerateSummary(a) ==
  IF Trim(a.transcript) = <<>> \/ Trim(a.instruction) = <<>>
  THEN [app |-> [a EXCEPT !.status =
                   Status("error", "Please provide both transcript and instruction")],
        issued |-> <<>>]
  ELSE [app |-> [a EXCEPT !.status = Status("loading", "Generating summary...")],
        issued |-> << GenerateFetch(a.transcript, a.instruction) >>]

appSendEmailUntrimmed(a) ==
  IF a.summary = <<>>
  THEN [app |-> [a EXCEPT !.status = Status("error", "Please generate a summary first")],
        issued |-> <<>>]
  ELSE IF Len(a.recipients) = 0
  THEN [app |-> [a EXCEPT !.status = Status("error", "Please add at least one recipient")],
        issued |-> <<>>]
  ELSE [app |-> [a EXCEPT !.status = Status("loading", "Sending email...")],
        issued |-> << SendFetch(a.summary, a.recipients) >>]

\* sendEmail of App.tsx up to its await.
appSendEmail(a) ==
  IF Trim(a.summary) = <<>>
  THEN [app |-> [a EXCEPT !.status = Status("error", "Please generate a summary first")],
        issued |-> <<>>]
  ELSE IF Len(a.recipients) = 0
  THEN [app |-> [a EXCEPT !.status = Status("error", "Please add at least one recipient")],
        issued |-> <<>>]
  ELSE [app |-> [a EXCEPT !.status = Status("loading", "Sending email...")],
        issued |-> << SendFetch(a.summary, a.recipients) >>]

addRecipientAlways(a) ==
  LET email == Trim(a.recipientInput)
  IN IF email # <<>>
     THEN [a EXCEPT !.recipients = Append(a.recipients, email), !.recipientInput = <<>>]
     ELSE a

addRecipient(a) ==
  LET email == Trim(a.recipientInput)
  IN IF email # <<>> /\ ~Includes(a.recipients, email)
     THEN [a EXCEPT !.recipients = Append(a.recipients, email), !.recipientInput = <<>>]
     ELSE a

removeRecipient(a, email) == [a EXCEPT !.recipients = Filter(a.recipients, email)]

handleRecipientKeyPress(a, key) ==
  IF key = "Enter" \/ key = "," THEN addRecipient(a) ELSE a

\* What a fetch call comes to: the promise rejects (also when
\* response.json() does), or resolves with response.ok and the parsed
\* body; error is "" when the body has no error property.
Rejected == [rejects |-> TRUE, ok |-> FALSE, error |-> "", text |-> <<>>]

Resolved(ok, error, txt) == [rejects |-> FALSE, ok |-> ok, error |-> error, text |-> txt]

\* data.error || fallback
OrElse(error, fallback) == IF error # "" THEN error ELSE fallback

handleFileUploadThenSilent(a, out) ==
  IF out.rejects THEN a
  ELSE IF out.ok
  THEN [a EXCEPT !.transcript = out.text,
                 !.status = Status("success", "File uploaded successfully!")]
  ELSE [a EXCEPT !.status = Status("error", OrElse(out.error, "Failed to upload file"))]

\* handleFileUpload after its awaits.
handleFileUploadThen(a, out) ==
  IF out.rejects THEN [a EXCEPT !.status = Status("error", "Failed to upload file")]
  ELSE IF out.ok
  THEN [a EXCEPT !.transcript = out.text,
                 !.status = Status("success", "File uploaded successfully!")]
  ELSE [a EXCEPT !.status = Status("error", OrElse(out.error, "Failed to upload file"))]

\* generateSummary of App.tsx after its awaits.
appGenerateSummaryThen(a, out) ==
  IF out.rejects THEN [a EXCEPT !.status = Status("error", "Failed to generate summary")]
  ELSE IF out.ok
  THEN [a EXCEPT !.summary = out.text,
                 !.status = Status("success", "Summary generated successfully!")]
  ELSE [a EXCEPT !.status = Status("error", OrElse(out.error, "Failed to generate summary"))]

appSendEmailThenKeeps(a, out) ==
  IF out.rejects THEN [a EXCEPT !.status = Status("error", "Failed to send email")]
  ELSE IF out.ok
  THEN [a EXCEPT !.status = Status("success", "Email sent successfully!")]
  ELSE [a EXCEPT !.status = Status("error", OrElse(out.error, "Failed to send email"))]

\* sendEmail of App.tsx after its awaits.
appSendEmailThen(a, out) ==
  IF out.rejects THEN [a EXCEPT !.status = Status("error", "Failed to send email")]
  ELSE IF out.ok
  THEN [a EXCEPT !.status = Status("success", "Email sent successfully!"),
                 !.recipients = <<>>,
                 !.recipientInput = <<>>]
  ELSE [a EXCEPT !.status = Status("error", OrElse(out.error, "Failed to send email"))]

\* What is rendered: the two lower sections and the buttons' disabled
\* attributes.
emailSectionShown(a) == a.summary # <<>>

generateDisabled(a) == Trim(a.transcript) = <<>> \/ Trim(a.instruction) = <<>>

addDisabled(a) == Trim(a.recipientInput) = <<>>

sendDisabled(a) == Len(a.recipients) = 0

\* Inputs of the frontend

TranscriptTexts == {<<32>>, <<97>>}

InstructionTexts == {<<>>, <<97>>}

SummaryTexts == {<<32>>, <<98>>}

RecipientTexts == {<<32>>, <<32, 120>>, <<121>>}

Addresses == {<<120>>, <<121>>}

Keys == {"Enter", ",", "a"}

T_TXT == <<116, 46, 116, 120, 116>>

T_PDF == <<116, 46, 112, 100, 102>>

T_BIN == <<116, 46, 98, 105, 110>>

Choice(n, t) == [present |-> TRUE, name |-> n, type |-> t, bytes |-> <<97>>]

Choices ==
  {NoChoice,
   Choice(T_TXT, "text/plain"),
   Choice(T_TXT, "application/pdf"),
   Choice(T_PDF, "application/pdf"),
   Choice(T_BIN, "application/octet-stream")}

\* The text of an OK response: the transcript of an upload, the summary
\* of a generate-summary; a send-email response has neither.
OkText(kind) ==
  IF kind = "upload" THEN <<97>> ELSE IF kind = "generate" THEN <<98>> ELSE <<>>

FetchOutcomes(kind) ==
  {Rejected, Resolved(TRUE, "", OkText(kind)),
   Resolved(FALSE, "Internal server error", <<>>), Resolved(FALSE, "", <<>>)}

FetchKinds == {"upload", "generate", "send"}

AllOutcomes == UNION {FetchOutcomes(k) : k \in FetchKinds}

\* State machine of the frontend

ClientInit ==
  /\ env \in [EnvNames -> {Undefined}]
  /\ reqs = <<>>
  /\ genCalls = <<>>
  /\ mailCalls = <<>>
  /\ nodeEnv = "development"
  /\ http = <<>>
  /\ app = AppStart
  /\ fetches = <<>>
  /\ newestSettled = FALSE

\* onChange of the transcript textarea.
TypeTranscript(v) ==
  /\ app' = [app EXCEPT !.transcript = v]
  /\ UNCHANGED <<fetches, newestSettled, serverVars, routerVars>>

\* onChange of the instruction input.
TypeInstruction(v) ==
  /\ app' = [app EXCEPT !.instruction = v]
  /\ UNCHANGED <<fetches, newestSettled, serverVars, routerVars>>

\* onChange of the summary textarea.
EditSummary(v) ==
  /\ emailSectionShown(app)
  /\ app' = [app EXCEPT !.summary = v]
  /\ UNCHANGED <<fetches, newestSettled, serverVars, routerVars>>

\* onChange of the recipient input.
TypeRecipient(v) ==
  /\ emailSectionShown(app)
  /\ app' = [app EXCEPT !.recipientInput = v]
  /\ UNCHANGED <<fetches, newestSettled, serverVars, routerVars>>

\* onClick of Add Recipient.
ClickAddRecipient ==
  /\ emailSectionShown(app)
  /\ ~addDisabled(app)
  /\ app' = addRecipient(app)
  /\ UNCHANGED <<fetches, newestSettled, serverVars, routerVars>>

\* onKeyPress of the recipient input.
RecipientKeyPress(key) ==
  /\ emailSectionShown(app)
  /\ app' = handleRecipientKeyPress(app, key)
  /\ UNCHANGED <<fetches, newestSettled, serverVars, routerVars>>

\* onClick of a recipient tag's remove button.
ClickRemoveRecipient(email) ==
  /\ emailSectionShown(app)
  /\ Includes(app.recipients, email)
  /\ app' = removeRecipient(app, email)
  /\ UNCHANGED <<fetches, newestSettled, serverVars, routerVars>>

\* onChange of the file input.
ChooseFile(file) ==
  /\ LET h == handleFileUpload(app, file)
     IN /\ Len(fetches) + Len(h.issued) <= MaxInFlight
        /\ app' = h.app
        /\ fetches' = fetches \o h.issued
  /\ UNCHANGED <<newestSettled, serverVars, routerVars>>

\* onClick of Generate Summary.
ClickGenerate ==
  /\ ~generateDisabled(app)
  /\ LET h == appGenerateSummary(app)
     IN /\ Len(fetches) + Len(h.issued) <= MaxInFlight
        /\ app' = h.app
        /\ fetches' = fetches \o h.issued
        /\ newestSettled' = IF h.issued # <<>> THEN FALSE ELSE newestSettled
  /\ UNCHANGED <<serverVars, routerVars>>

\* onClick of Send Email.
ClickSend ==
  /\ emailSectionShown(app)
  /\ ~sendDisabled(app)
  /\ LET h == appSendEmail(app)
     IN /\ Len(fetches) + Len(h.issued) <= MaxInFlight
        /\ app' = h.app
        /\ fetches' = fetches \o h.issued
  /\ UNCHANGED <<newestSettled, serverVars, routerVars>>

Without(list, i) == SubSeq(list, 1, i - 1) \o SubSeq(list, i + 1, Len(list))

\* The fetch call at position i is the generate-summary call issued last.
IsNewestGenerate(i) ==
  /\ fetches[i].kind = "generate"
  /\ ~newestSettled
  /\ \A j \in (i + 1)..Len(fetches) : fetches[j].kind # "generate"

\* The fetch call at position i settles and its handler runs on.
FetchSettles(i, out) ==
  /\ i \in 1..Len(fetches)
  /\ out \in FetchOutcomes(fetches[i].kind)
  /\ app' = CASE fetches[i].kind = "upload" -> handleFileUploadThen(app, out)
               [] fetches[i].kind = "generate" -> appGenerateSummaryThen(app, out)
               [] fetches[i].kind = "send" -> appSendEmailThen(app, out)
  /\ fetches' = Without(fetches, i)
  /\ newestSettled' = (newestSettled \/ IsNewestGenerate(i))
  /\ UNCHANGED <<serverVars, routerVars>>

ClientNext ==
  \/ \E v \in TranscriptTexts : TypeTranscript(v)
  \/ \E v \in InstructionTexts : TypeInstruction(v)
  \/ \E v \in SummaryTexts : EditSummary(v)
  \/ \E v \in RecipientTexts : TypeRecipient(v)
  \/ ClickAddRecipient
  \/ \E key \in Keys : RecipientKeyPress(key)
  \/ \E email \in Addresses : ClickRemoveRecipient(email)
  \/ \E file \in Choices : ChooseFile(file)
  \/ ClickGenerate
  \/ ClickSend
  \/ \E i \in 1..MaxInFlight, out \in AllOutcomes : FetchSettles(i, out)

ClientSpec == ClientInit /\ [][ClientNext]_vars

\* A fetch call in flight settles in the end: its promise resolves or
\* rejects.
FairClientSpec ==
  ClientSpec /\ WF_vars(\E i \in 1..MaxInFlight, out \in AllOutcomes : FetchSettles(i, out))

-----------------------------------------------------------------------------
\* Properties

Requests == 1..Len(reqs)

\* The field is absent or the empty string.
Lacks(v) == v = Undefined \/ v = Str(<<>>)

IsError(res, st, m) ==
  /\ res.status = st
  /\ res.body.keys = {"error"}
  /\ res.body.msg = m

CallsOf(log, i) == {k \in 1..Len(log) : log[k].rid = i}

\* C1: a generate-summary request whose body lacks transcript or
\* instruction is answered 400 "Transcript and instruction are required",
\* whatever the configuration.
C1_MissingFieldsRejected ==
  \A i \in Requests :
    (/\ reqs[i].route = "generate-summary"
     /\ (Lacks(reqs[i].body.transcript) \/ Lacks(reqs[i].body.instruction)))
    => /\ reqs[i].phase = "responded"
       /\ IsError(reqs[i].res, 400, "Transcript and instruction are required")

C1_Witness ==
  \E i \in Requests :
    /\ reqs[i].route = "generate-summary"
    /\ reqs[i].body.transcript = Str(<<>>)
    /\ reqs[i].body.instruction = Str(<<97>>)
    /\ reqs[i].res.status = 400
    /\ env.GEMINI_API_KEY = Undefined

\* C2: a send-email request whose summary is absent or empty, or whose
\* recipients is absent, not an array or an empty array, is answered 400
\* "Summary and at least one recipient email are required".
C2_BadSendRejected ==
  \A i \in Requests :
    (/\ reqs[i].route = "send-email"
     /\ \/ Lacks(reqs[i].body.summary)
        \/ reqs[i].body.recipients.t # "array"
        \/ reqs[i].body.recipients = Arr(<<>>))
    => /\ reqs[i].phase = "responded"
       /\ IsError(reqs[i].res, 400, "Summary and at least one recipient email are required")

C2_Witness ==
  \E i \in Requests :
    /\ reqs[i].route = "send-email"
    /\ Truthy(reqs[i].body.summary)
    /\ reqs[i].body.recipients = Str(<<97>>)
    /\ reqs[i].res.status = 400

\* C3: a generate-summary or send-email request rejected with 400 or with
\* a "not configured" 500 has issued no call to the completion provider
\* and no call to the mail provider.
C3_RejectedWithoutCalls ==
  \A i \in Requests :
    (/\ reqs[i].route \in {"generate-summary", "send-email"}
     /\ reqs[i].phase = "responded"
     /\ \/ reqs[i].res.status = 400
        \/ IsError(reqs[i].res, 500, "Gemini API key not configured")
        \/ IsError(reqs[i].res, 500, "Email configuration not set up"))
    => CallsOf(genCalls, i) = {} /\ CallsOf(mailCalls, i) = {}

C3_Witness ==
  \E i, j \in Requests :
    /\ reqs[i].route = "generate-summary"
    /\ IsError(reqs[i].res, 500, "Gemini API key not configured")
    /\ CallsOf(genCalls, i) = {}
    /\ reqs[j].route = "generate-summary"
    /\ CallsOf(genCalls, j) # {}

\* The request has both fields and was not turned away for configuration.
ValidGenerate(i) ==
  /\ reqs[i].route = "generate-summary"
  /\ ~Lacks(reqs[i].body.transcript)
  /\ ~Lacks(reqs[i].body.instruction)
  /\ ~IsError(reqs[i].res, 500, "Gemini API key not configured")

ValidSend(i) ==
  /\ reqs[i].route = "send-email"
  /\ reqs[i].body.summary.t = "string"
  /\ reqs[i].body.summary.s # <<>>
  /\ reqs[i].body.recipients.t = "array"
  /\ Len(reqs[i].body.recipients.a) >= 1
  /\ ~IsError(reqs[i].res, 500, "Email configuration not set up")

\* C4: when the provider call of a generate-summary request succeeds, the
\* response is 200 and its summary is exactly the text the provider
\* returned.
C4_SummaryVerbatim ==
  \A k \in 1..Len(genCalls) :
    genCalls[k].outcome = "resolved"
    => LET r == reqs[genCalls[k].rid]
       IN /\ r.phase = "responded"
          /\ r.res.status = 200
          /\ r.res.body.keys = {"summary"}
          /\ r.res.body.text = genCalls[k].text

C4_Witness ==
  \E k \in 1..Len(genCalls) :
    /\ genCalls[k].outcome = "resolved"
    /\ genCalls[k].text = <<32, 97, 10>>
    /\ reqs[genCalls[k].rid].res.body.text = <<32, 97, 10>>

\* C5: every valid generate-summary request issues exactly one provider
\* call, whether the call succeeds or fails, and an identical later
\* request issues its own: k valid requests make k provider calls.
C5_OneCallPerRequest ==
  /\ \A i \in Requests : ValidGenerate(i) => Cardinality(CallsOf(genCalls, i)) = 1
  /\ Len(genCalls) = Cardinality({i \in Requests : ValidGenerate(i)})

C5_Witness ==
  \E i, j \in Requests :
    /\ i < j
    /\ ValidGenerate(i) /\ ValidGenerate(j)
    /\ reqs[i].body = reqs[j].body
    /\ Len(genCalls) = 2
    /\ genCalls[1].outcome = "rejected"
    /\ genCalls[2].outcome = "resolved"

\* The strings of rs occur in txt one after the other, in this order.
InOrder(rs, txt) ==
  \E f \in [1..Len(rs) -> 1..Len(txt)] :
    \A j \in 1..Len(rs) :
      /\ SubSeq(txt, f[j], f[j] + Len(rs[j]) - 1) = rs[j]
      /\ j < Len(rs) => f[j] + Len(rs[j]) <= f[j + 1]

Contains(txt, part) ==
  \E o \in 1..Len(txt) : SubSeq(txt, o, o + Len(part) - 1) = part

\* C6: a valid send-email request with N >= 1 recipients issues exactly
\* one mail call, whose `to` holds all N recipients in request order and
\* whose body holds the summary verbatim; when the provider accepts it the
\* response is 200 {success: true, message: "Email sent successfully"}.
C6_OneMailToAll ==
  \A i \in Requests :
    ValidSend(i)
    => /\ Cardinality(CallsOf(mailCalls, i)) = 1
       /\ \A k \in CallsOf(mailCalls, i) :
            /\ InOrder(reqs[i].body.recipients.a, mailCalls[k].call.to)
            /\ Contains(mailCalls[k].call.html, reqs[i].body.summary.s)
            /\ mailCalls[k].outcome = "resolved"
               => /\ reqs[i].res.status = 200
                  /\ reqs[i].res.body.keys = {"success", "message"}
                  /\ reqs[i].res.body.success = TRUE
                  /\ reqs[i].res.body.msg = "Email sent successfully"

C6_Witness ==
  \E i \in Requests :
    /\ ValidSend(i)
    /\ Len(reqs[i].body.recipients.a) = 2
    /\ Len(mailCalls) = 1
    /\ mailCalls[1].rid = i
    /\ mailCalls[1].outcome = "resolved"
    /\ reqs[i].res.status = 200

\* C7: an upload whose file part declares a MIME type other than
\* text/plain or application/octet-stream is rejected with 400
\* "Only .txt files are allowed".
C7_WrongTypeRejected400 ==
  \A i \in Requests :
    (/\ reqs[i].route = "upload-transcript"
     /\ reqs[i].file.present
     /\ reqs[i].file.mimetype \notin {"text/plain", "application/octet-stream"})
    => IsError(reqs[i].res, 400, "Only .txt files are allowed")

\* UTF-8 decodings of the uploaded contents, written out.
Utf8Expected(b) ==
  CASE b = <<32, 97, 32>> -> <<32, 97, 32>>
    [] b = <<195, 169, 255>> -> <<233, 65533>>
    [] b = <<239, 187, 191, 97>> -> <<65279, 97>>

\* C8: an upload declared text/plain or application/octet-stream within
\* the size ceiling is answered 200 with the file's bytes decoded as UTF-8,
\* untrimmed; a request without a file part is answered 400
\* "No file uploaded".
C8_UploadDecoded ==
  \A i \in Requests :
    reqs[i].route = "upload-transcript"
    => /\ (/\ reqs[i].file.present
           /\ reqs[i].file.mimetype \in {"text/plain", "application/octet-stream"}
           /\ reqs[i].file.size <= 5242880)
          => /\ reqs[i].res.status = 200
             /\ reqs[i].res.body.keys = {"transcript"}
             /\ reqs[i].res.body.text = Utf8Expected(reqs[i].file.buffer)
       /\ ~reqs[i].file.present => IsError(reqs[i].res, 400, "No file uploaded")

C8_Witness ==
  \E i, j \in Requests :
    /\ reqs[i].route = "upload-transcript"
    /\ reqs[i].file.mimetype = "application/octet-stream"
    /\ reqs[i].file.buffer = <<32, 97, 32>>
    /\ reqs[i].res.body.text = <<32, 97, 32>>
    /\ reqs[j].route = "upload-transcript"
    /\ ~reqs[j].file.present
    /\ reqs[j].res.status = 400

\* C9: when the provider call of a valid request fails, the response is
\* 500 with the route's fixed message, the same for every provider error,
\* and carries nothing else.
C9_GenericUpstreamError ==
  /\ \A k \in 1..Len(genCalls) :
       genCalls[k].outcome = "rejected"
       => /\ IsError(reqs[genCalls[k].rid].res, 500,
                     "Failed to generate summary. Please try again.")
          /\ reqs[genCalls[k].rid].res.body.text = <<>>
  /\ \A k \in 1..Len(mailCalls) :
       mailCalls[k].outcome = "rejected"
       => /\ IsError(reqs[mailCalls[k].rid].res, 500,
                     "Failed to send email. Please check your email configuration.")
          /\ reqs[mailCalls[k].rid].res.body.text = <<>>

C9_Witness ==
  \E k \in 1..Len(genCalls), m \in 1..Len(mailCalls) :
    /\ genCalls[k].outcome = "rejected"
    /\ mailCalls[m].outcome = "rejected"
    /\ genCalls[k].error # mailCalls[m].error
    /\ reqs[genCalls[k].rid].res.status = 500
    /\ reqs[mailCalls[m].rid].res.status = 500

\* C10: the credentials are looked at when a request arrives, not at
\* start: a valid request is answered 500 exactly when its credential is
\* absent at that moment, and is otherwise passed to the provider,
\* whatever requests and credential changes came before.
C10_CredentialPerRequest ==
  [][Len(reqs') = Len(reqs) + 1
     => LET r == reqs'[Len(reqs')]
        IN /\ (/\ r.route = "generate-summary"
               /\ ~Lacks(r.body.transcript)
               /\ ~Lacks(r.body.instruction))
              => IF env.GEMINI_API_KEY = Undefined
                 THEN r.phase = "responded" /\ r.res.status = 500
                 ELSE /\ r.phase = "awaiting"
                      /\ CallsOf(genCalls', Len(reqs')) # {}
           /\ (/\ r.route = "send-email"
               /\ ~Lacks(r.body.summary)
               /\ r.body.recipients.t = "array"
               /\ r.body.recipients # Arr(<<>>))
              => IF env.EMAIL_USER = Undefined \/ env.EMAIL_PASS = Undefined
                 THEN r.phase = "responded" /\ r.res.status = 500
                 ELSE /\ r.phase = "awaiting"
                      /\ CallsOf(mailCalls', Len(reqs')) # {}]_vars

C10_Witness ==
  \E i, j \in Requests :
    /\ i < j
    /\ reqs[i].route = "generate-summary"
    /\ reqs[j].route = "generate-summary"
    /\ reqs[i].body = reqs[j].body
    /\ IsError(reqs[i].res, 500, "Gemini API key not configured")
    /\ reqs[j].res.status = 200

Exchanges == 1..Len(http)

\* C11: a POST /api/generate-summary request sent as application/json
\* whose body is not JSON is answered with status 400.
C11_MalformedJson400 ==
  \A k \in Exchanges :
    (/\ http[k].req.method = "POST"
     /\ http[k].req.path = "/api/generate-summary"
     /\ http[k].req.body = "malformed")
    => http[k].res.status = 400

\* The request has the method and path of one of the four API routes.
KnownApiRoute(req) ==
  \/ req.method = "POST"
     /\ req.path \in {"/api/generate-summary", "/api/send-email", "/api/upload-transcript"}
  \/ req.method = "GET" /\ req.path = "/api/health"

IsFile(res, f) ==
  /\ res.status = 200
  /\ res.body.keys = {"file"}
  /\ res.body.msg = f

TurnedAway(r, i, gen, mail) ==
  /\ r.phase = "responded"
  /\ r.res.status = 500
  /\ CallsOf(gen, i) = {}
  /\ CallsOf(mail, i) = {}
  /\ \/ /\ r.route = "generate-summary"
        /\ ~Lacks(r.body.transcript)
        /\ ~Lacks(r.body.instruction)
     \/ /\ r.route = "send-email"
        /\ ~Lacks(r.body.summary)
        /\ r.body.recipients.t = "array"
        /\ r.body.recipients # Arr(<<>>)

NoDuplicates(list) ==
  \A j, k \in 1..Len(list) : j # k => list[j] # list[k]

\* The App state but for its status.
SameButStatus(a, b) == [a EXCEPT !.status = b.status] = b

\* C13: the recipient list never holds an address twice nor an entry that
\* is empty after trimming; from an empty list, adding an address twice
\* leaves one entry, and adding it then removing it leaves none.
C13_RecipientsAreASet ==
  /\ NoDuplicates(app.recipients)
  /\ \A k \in 1..Len(app.recipients) : Trim(app.recipients[k]) # <<>>
  /\ \A v \in RecipientTexts :
       LET once == addRecipient([app EXCEPT !.recipientInput = v])
           twice == addRecipient([once EXCEPT !.recipientInput = v])
       IN /\ twice.recipients = once.recipients
          /\ (app.recipients = <<>> /\ Trim(v) # <<>>)
               => /\ Len(twice.recipients) = 1
                  /\ Len(removeRecipient(once, Trim(v)).recipients) = 0

C13_Witness ==
  /\ Len(app.recipients) = 2
  /\ Includes(app.recipients, Trim(app.recipientInput))

\* C14: when a send-email request completes with an OK response the
\* recipient list becomes empty and the status success; when it completes
\* with a non-OK response or fails, the recipient list stays what it was
\* and the status becomes error.
C14_SendCompletion ==
  [][\A i \in 1..Len(fetches), out \in FetchOutcomes("send") :
       (fetches[i].kind = "send" /\ FetchSettles(i, out))
       => IF ~out.rejects /\ out.ok
          THEN app'.recipients = <<>> /\ app'.status.type = "success"
          ELSE app'.recipients = app.recipients /\ app'.status.type = "error"]_vars

C14_Witness ==
  /\ app.status = Status("error", "Failed to send email")
  /\ Len(app.recipients) = 2
  /\ fetches = <<>>

AsUploaded(f) == File(f.type, f.bytes, Len(f.bytes))

\* C16: the client-side pre-check passes a chosen file exactly when the
\* server's file filter accepts it.
C16_PreCheckIsFileFilter ==
  [][\A f \in Choices :
       (f.present /\ ChooseFile(f))
       => (Len(fetches') > Len(fetches) <=> fileFilter(AsUploaded(f)))]_vars

\* C17: once no request is in flight the status is not loading, and a
\* status of loading is followed by success or error.
C17_LoadingEnds ==
  /\ [](fetches = <<>> => app.status.type # "loading")
  /\ (app.status.type = "loading") ~> (app.status.type \in {"success", "error"})

C17_Witness ==
  /\ app.status.type = "loading"
  /\ Len(fetches) = MaxInFlight

\* C18: at most one generate-summary request and at most one send-email
\* request is in flight at any time.
C18_OneInFlightPerKind ==
  \A j, k \in 1..Len(fetches) :
    (j # k /\ fetches[j].kind \in {"generate", "send"})
    => fetches[j].kind # fetches[k].kind

C20_ValidationBeforeConfiguration ==
  [][Len(reqs') = Len(reqs) + 1
     => LET r == reqs'[Len(reqs')]
        IN /\ (/\ r.route = "generate-summary"
               /\ (Lacks(r.body.transcript) \/ Lacks(r.body.instruction))
               /\ env.GEMINI_API_KEY = Undefined)
              => IsError(r.res, 400, "Transcript and instruction are required")
           /\ (/\ r.route = "send-email"
               /\ \/ Lacks(r.body.summary)
                  \/ r.body.recipients.t # "array"
                  \/ r.body.recipients = Arr(<<>>)
               /\ (env.EMAIL_USER = Undefined \/ env.EMAIL_PASS = Undefined))
              => IsError(r.res, 400,
                         "Summary and at least one recipient email are required")]_vars

C20_Witness ==
  \E i \in Requests :
    /\ reqs[i].route = "send-email"
    /\ reqs[i].body.recipients = Arr(<<>>)
    /\ reqs[i].res.status = 400
    /\ env.EMAIL_USER = Undefined
    /\ env.EMAIL_PASS = Undefined
    /\ env.GEMINI_API_KEY = Undefined

\* C21: when a send-email request completes with an OK response, every
\* address the clearing removes from the recipient list was among the
\* recipients of that request.
C21_ClearedWereSent ==
  [][\A i \in 1..Len(fetches), out \in FetchOutcomes("send") :
       (/\ fetches[i].kind = "send"
        /\ ~out.rejects
        /\ out.ok
        /\ FetchSettles(i, out))
       => \A k \in 1..Len(app.recipients) :
            Includes(app'.recipients, app.recipients[k])
              \/ Includes(fetches[i].recipients, app.recipients[k])]_vars

\* C22: a response to a generate-summary request that arrives after the
\* response to the request issued last leaves the displayed summary and
\* status as they are, so that once all have completed the display is
\* that of the request issued last.
C22_NewestGenerateWins ==
  [][\A i \in 1..Len(fetches), out \in FetchOutcomes("generate") :
       (/\ fetches[i].kind = "generate"
        /\ newestSettled
        /\ FetchSettles(i, out))
       => /\ app'.summary = app.summary
          /\ app'.status = app.status]_vars

====
